---- MODULE Spec2Model ----
(***************************************************************************)
(* State-machine model of the PUBG Discord bot:                            *)
(*   - the player record store (utils/storage.js): one JSON document,      *)
(*     read and rewritten wholesale by synchronous functions;              *)
(*   - the registration modal handler, which awaits the player search and  *)
(*     then saves synchronously;                                           *)
(*   - the recent-match aggregator of the PUBG API client                  *)
(*     (models/pubg-api.js): a profile fetch, a fan-out of match fetches   *)
(*     joined with Promise.all, and the participant/roster join;           *)
(*   - one request of the client's axios instance, with its timeout, and   *)
(*     the value each operation returns for each way the request can end;  *)
(*   - the route of app.js and the handlers it dispatches to, one          *)
(*     interaction from its POST to its reply.                             *)
(* Timestamps are ISO strings in the code; they are modelled by the        *)
(* integer reading of a non-decreasing clock (ISO strings of one era order *)
(* as their instants do).                                                  *)
(***************************************************************************)
EXTENDS Integers, Sequences, FiniteSets, TLC

VARIABLES
  file,     \* data/users.json: [exists, parsable, doc]
  dataDir,  \* TRUE when the ./data directory exists
  clock,    \* the reading new Date() gives
  pending,  \* per user: the name whose search a registration interaction awaits
  seen,     \* history: per pending user, the users whose registration saved meanwhile
  saved,    \* history: per user, the record its latest save wrote (NoRec once deleted)
  last,     \* history: the latest store call, its arguments and its outcome
  agg,      \* the getRecentMatchesStats call (defined with the aggregator)
  call,     \* one request of the PUBG API client (defined with the transport)
  ix        \* the interaction POST /interactions serves (defined with the router)

vars == <<file, dataDir, clock, pending, seen, saved, last, agg, call, ix>>

----------------------------------------------------------------------------
(* Bounds of the model *)

MaxClock == 3

(* Values *)

Users == {"u1", "u2"}
Null == "null"            \* JavaScript null
Undefined == "undefined"  \* JavaScript undefined (an absent property)
NoName == "-"             \* no registration in flight
NoTime == 0               \* an absent savedAt (undefined), falsy like it
NoRec == [isNull |-> TRUE]
EmptyDB == [u \in {} |-> NoRec]

Falsy(x) == x \in {Null, Undefined, ""}
\* a || b on string-or-null operands
JsOr(a, b) == IF Falsy(a) THEN b ELSE a

----------------------------------------------------------------------------
(* utils/storage.js *)

\* what the environment does to one store call
HealthyEnv == [mkdirOk |-> TRUE, writeOk |-> TRUE]
FaultyEnvs == [mkdirOk : BOOLEAN, writeOk : BOOLEAN]

JSONstringify(data) == [exists |-> TRUE, parsable |-> TRUE, doc |-> data]

\* JSON.parse: the value, or a SyntaxError
JSONparse(raw) ==
  IF raw.parsable THEN [threw |-> FALSE, value |-> raw.doc]
  ELSE [threw |-> TRUE, value |-> EmptyDB]

\* ensureDataDir: the mkdirSync is outside every try block
ensureDataDir(dir, env) ==
  IF dir THEN [threw |-> FALSE, dir |-> TRUE]
  ELSE IF env.mkdirOk THEN [threw |-> FALSE, dir |-> TRUE]
  ELSE [threw |-> TRUE, dir |-> FALSE]

\* readDB without its catch: the parse error reaches the caller
readDBRethrows(f, dir, env) ==
  LET e == ensureDataDir(dir, env) IN
  IF e.threw THEN [threw |-> TRUE, dir |-> e.dir, db |-> EmptyDB]
  ELSE IF f.exists
       THEN [threw |-> JSONparse(f).threw, dir |-> e.dir, db |-> JSONparse(f).value]
       ELSE [threw |-> FALSE, dir |-> e.dir, db |-> EmptyDB]

readDB(f, dir, env) ==
  LET e == ensureDataDir(dir, env) IN
  IF e.threw THEN [threw |-> TRUE, dir |-> e.dir, db |-> EmptyDB]
  ELSE IF f.exists /\ ~JSONparse(f).threw
       THEN [threw |-> FALSE, dir |-> e.dir, db |-> JSONparse(f).value]
       ELSE [threw |-> FALSE, dir |-> e.dir, db |-> EmptyDB]

\* writeDB: a failing writeFileSync is caught and logged
writeDB(f, dir, data, env) ==
  LET e == ensureDataDir(dir, env) IN
  IF e.threw THEN [threw |-> TRUE, dir |-> e.dir, file |-> f, wfail |-> FALSE]
  ELSE IF env.writeOk
       THEN [threw |-> FALSE, dir |-> e.dir, file |-> JSONstringify(data), wfail |-> FALSE]
       ELSE [threw |-> FALSE, dir |-> e.dir, file |-> f, wfail |-> TRUE]

\* db[discordUserId]?.savedAt
savedAtOf(db, u) == IF u \in DOMAIN db THEN db[u].savedAt ELSE NoTime

\* faulty variants of the record savePlayerData builds: savedAt always fresh,
\* the old playerName kept
RecordFreshSavedAt(db, u, data, t1, t2) ==
  [playerId |-> data.playerId, playerName |-> data.playerName,
   clanId |-> JsOr(data.clanId, Null), savedAt |-> t1, updatedAt |-> t2]
RecordKeepsName(db, u, data, t1, t2) ==
  [playerId |-> data.playerId,
   playerName |-> IF u \in DOMAIN db THEN db[u].playerName ELSE data.playerName,
   clanId |-> JsOr(data.clanId, Null),
   savedAt |-> IF savedAtOf(db, u) = NoTime THEN t1 ELSE savedAtOf(db, u),
   updatedAt |-> t2]

\* faulty variant: the two readings of the clock used the other way round
RecordSwappedStamps(db, u, data, t1, t2) ==
  [playerId |-> data.playerId, playerName |-> data.playerName,
   clanId |-> JsOr(data.clanId, Null),
   savedAt |-> IF savedAtOf(db, u) = NoTime THEN t2 ELSE savedAtOf(db, u),
   updatedAt |-> t1]

\* the object literal of savePlayerData; t1 and t2 are its two new Date() readings
NewRecord(db, u, data, t1, t2) ==
  [playerId |-> data.playerId,
   playerName |-> data.playerName,
   clanId |-> JsOr(data.clanId, Null),
   savedAt |-> IF savedAtOf(db, u) = NoTime THEN t1 ELSE savedAtOf(db, u),
   updatedAt |-> t2]

\* faulty variant of the assignment: the document rebuilt from the one key
AssignOnly(db, u, rec) == (u :> rec)

\* faulty variant of the assignment: every record of the document restamped
AssignTouchesAll(db, u, rec) ==
  (u :> rec) @@ [v \in DOMAIN db |-> [db[v] EXCEPT !.updatedAt = rec.updatedAt]]

\* db[discordUserId] = rec
Assign(db, u, rec) == (u :> rec) @@ db

savePlayerData(f, dir, u, data, t1, t2, env) ==
  LET r == readDB(f, dir, env) IN
  IF r.threw
  THEN [threw |-> TRUE, dir |-> r.dir, file |-> f, wfail |-> FALSE, rec |-> NoRec]
  ELSE LET rec == NewRecord(r.db, u, data, t1, t2)
           w == writeDB(f, r.dir, Assign(r.db, u, rec), env)
       IN [threw |-> w.threw, dir |-> w.dir, file |-> w.file, wfail |-> w.wfail,
           rec |-> rec]

\* the reads are evaluated where the directory exists (they create it otherwise)
getPlayerData(f, u) ==
  LET db == readDB(f, TRUE, HealthyEnv).db IN
  IF u \in DOMAIN db THEN db[u] ELSE NoRec

getAllPlayerData(f) == readDB(f, TRUE, HealthyEnv).db

hasRegistered(f, u) == u \in DOMAIN readDB(f, TRUE, HealthyEnv).db

\* faulty variants: a delete that writes nothing, stats that count every user
\* as a clan member
deleteKeepsRecord(f, dir, u, env) ==
  LET r == readDB(f, dir, env) IN
  [threw |-> r.threw, dir |-> r.dir, file |-> f, wfail |-> FALSE,
   ret |-> ~r.threw /\ u \in DOMAIN r.db, wrote |-> FALSE]
statsCountsAll(f) ==
  LET db == readDB(f, TRUE, HealthyEnv).db
      users == DOMAIN db
  IN [totalUsers |-> Cardinality(users),
      usersWithClans |-> Cardinality(users),
      usersWithoutClans |-> 0]

deletePlayerData(f, dir, u, env) ==
  LET r == readDB(f, dir, env) IN
  IF r.threw
  THEN [threw |-> TRUE, dir |-> r.dir, file |-> f, wfail |-> FALSE, ret |-> FALSE,
        wrote |-> FALSE]
  ELSE IF u \in DOMAIN r.db
       THEN LET w == writeDB(f, r.dir, [v \in DOMAIN r.db \ {u} |-> r.db[v]], env)
            IN [threw |-> w.threw, dir |-> w.dir, file |-> w.file, wfail |-> w.wfail,
                ret |-> ~w.threw, wrote |-> TRUE]
       ELSE [threw |-> FALSE, dir |-> r.dir, file |-> f, wfail |-> FALSE,
             ret |-> FALSE, wrote |-> FALSE]

getStats(f) ==
  LET db == readDB(f, TRUE, HealthyEnv).db
      users == DOMAIN db
      usersWithClans == Cardinality({u \in users : ~Falsy(db[u].clanId)})
  IN [totalUsers |-> Cardinality(users),
      usersWithClans |-> usersWithClans,
      usersWithoutClans |-> Cardinality(users) - usersWithClans]

----------------------------------------------------------------------------
(* models/pubg-api.js: error classification and the player search *)

NoError == [isError |-> FALSE, error |-> "", statusCode |-> 200]
ApiError(msg, code) == [isError |-> TRUE, error |-> msg, statusCode |-> code]

\* the thrown values: an axios error with a response, an axios error with only
\* the request (no answer, timeout), anything else (a TypeError on a missing field)
HttpFailure(status) == [hasResponse |-> TRUE, hasRequest |-> TRUE, status |-> status]
NoResponse == [hasResponse |-> FALSE, hasRequest |-> TRUE, status |-> 0]
TypeError == [hasResponse |-> FALSE, hasRequest |-> FALSE, status |-> 0]

\* faulty variant of the classification: every failure reported alike
handleErrorAlike(error) == ApiError("Failed to make request", 500)

handleError(error) ==
  IF error.hasResponse
  THEN CASE error.status = 404 -> ApiError("Player not found", 404)
         [] error.status = 401 -> ApiError("Invalid API key", 401)
         [] error.status = 429 -> ApiError("Rate limit exceeded", 429)
         [] error.status = 415 -> ApiError("Unsupported media type", 415)
         [] OTHER -> ApiError("API error", error.status)
  ELSE IF error.hasRequest
       THEN ApiError("No response from server", 503)
       ELSE ApiError("Failed to make request", 500)

\* what upstream can answer to the search: one player, an empty list, a body
\* without its data member ("noData"), a body that is null or whose entry has no
\* attributes ("noBody"), an HTTP failure, no answer
Names == {"Alice", "Bob"}
UpstreamPlayer(name) ==
  IF name = "Alice"
  THEN [id |-> "p1", name |-> "Alice", clanId |-> ""]
  ELSE [id |-> "p2", name |-> "Bob", clanId |-> "c9"]
HttpStatuses == {404, 401, 429, 500}
SearchResponses(name) ==
  {[kind |-> "ok", status |-> 200, data |-> <<UpstreamPlayer(name)>>],
   [kind |-> "ok", status |-> 200, data |-> <<>>],
   [kind |-> "noData", status |-> 200, data |-> <<>>],
   [kind |-> "noBody", status |-> 200, data |-> <<>>],
   [kind |-> "noResponse", status |-> 0, data |-> <<>>]}
  \cup {[kind |-> "http", status |-> s, data |-> <<>>] : s \in HttpStatuses}

NoPlayer == [id |-> Null, name |-> Null, clanId |-> Null]

\* faulty variant of the search: no check for an empty result, data[0] is read
searchWithoutCheck(playerName, response) ==
  CASE response.kind = "http" ->
         [res |-> handleError(HttpFailure(response.status)), player |-> NoPlayer]
    [] response.kind = "noResponse" ->
         [res |-> handleError(NoResponse), player |-> NoPlayer]
    [] response.kind = "ok" /\ Len(response.data) > 0 ->
         [res |-> NoError,
          player |-> [id |-> response.data[1].id, name |-> response.data[1].name,
                      clanId |-> JsOr(response.data[1].clanId, Null)]]
    [] OTHER -> [res |-> handleError(TypeError), player |-> NoPlayer]

searchPlayerByName(playerName, response) ==
  CASE response.kind = "http" ->
         [res |-> handleError(HttpFailure(response.status)), player |-> NoPlayer]
    [] response.kind = "noResponse" ->
         [res |-> handleError(NoResponse), player |-> NoPlayer]
    [] response.kind = "noBody" ->
         [res |-> handleError(TypeError), player |-> NoPlayer]
    [] OTHER ->
         IF response.kind = "noData" \/ Len(response.data) = 0
         THEN [res |-> ApiError("Player not found", 404), player |-> NoPlayer]
         ELSE [res |-> NoError,
               player |-> [id |-> response.data[1].id,
                           name |-> response.data[1].name,
                           clanId |-> JsOr(response.data[1].clanId, Null)]]

----------------------------------------------------------------------------
(* models/pubg-api.js: the player profile, the match fetch and the join *)

MaxLimit == 3

Target == "p1"            \* the playerId the statistics are asked for
MatchIdSet == {"A", "B", "C"}
Pending == [settled |-> FALSE]

\* the entries of a match's "included" collection
Participant(id, playerId, kills) ==
  [type |-> "participant", id |-> id, hasStats |-> TRUE, playerId |-> playerId,
   kills |-> kills, hasRefs |-> FALSE, refs |-> {}, rank |-> Undefined,
   won |-> Undefined]
\* a participant entry without its attributes.stats block
BareParticipant(id) ==
  [type |-> "participant", id |-> id, hasStats |-> FALSE, playerId |-> Undefined,
   kills |-> Undefined, hasRefs |-> FALSE, refs |-> {}, rank |-> Undefined,
   won |-> Undefined]
Roster(id, refs, rank, won) ==
  [type |-> "roster", id |-> id, hasStats |-> FALSE, playerId |-> Undefined,
   kills |-> Undefined, hasRefs |-> TRUE, refs |-> refs, rank |-> rank, won |-> won]
\* a roster entry without relationships.participants.data
BareRoster(id) ==
  [type |-> "roster", id |-> id, hasStats |-> FALSE, playerId |-> Undefined,
   kills |-> Undefined, hasRefs |-> FALSE, refs |-> {}, rank |-> Undefined,
   won |-> Undefined]

\* what upstream can answer to GET /matches/{id}: answers of the documented
\* shape and transport failures ...
Answer(kind, status, included) ==
  [kind |-> kind, status |-> status, included |-> included]
MatchResponses ==
  {Answer("ok", 200, <<Participant("pt1", Target, "k3"),
                       Roster("r1", {"pt1"}, "1", "true")>>),
   Answer("ok", 200, <<Roster("r2", {"pt2"}, "2", "false"),
                       Participant("pt2", "p2", "k1")>>),
   Answer("ok", 200, <<Participant("pt2", "p2", "k1"),
                       Participant("pt1", Target, "k0"),
                       Roster("r2", {"pt2"}, Undefined, "false")>>),
   Answer("ok", 200, <<Participant("pt1", Target, "k0"),
                       Roster("r1", {"pt1"}, Undefined, "false")>>),
   Answer("ok", 200, <<Roster("r2", {"pt2"}, "2", "true"),
                       Participant("pt1", Target, "k1"),
                       Roster("r1", {"pt1", "pt3"}, "0", "false")>>),
   Answer("ok", 200, <<>>),
   Answer("noBody", 200, <<>>),
   Answer("http", 404, <<>>),
   Answer("noResponse", 0, <<>>)}
\* ... and answers whose included entries lack the documented shape
MalformedResponses ==
  {Answer("ok", 200, <<BareParticipant("pt3")>>),
   Answer("ok", 200, <<Participant("pt1", Target, "k3"), BareRoster("r3")>>),
   Answer("ok", 200, <<Participant("pt1", Target, "k3"), BareParticipant("pt3"),
                       Roster("r1", {"pt1"}, "1", "true")>>)}

\* what upstream can answer to GET /players/{id}
RECURSIVE DistinctSeqs(_)
DistinctSeqs(S) ==
  {<<>>} \cup UNION {{<<x>> \o t : t \in DistinctSeqs(S \ {x})} : x \in S}
ProfileResponses ==
  {[kind |-> "ok", status |-> 200, matchIds |-> ids] : ids \in DistinctSeqs(MatchIdSet)}
  \cup {[kind |-> k, status |-> 200, matchIds |-> <<>>] : k \in {"noBody", "noMatches"}}
  \cup {[kind |-> "http", status |-> st, matchIds |-> <<>>] : st \in {404, 429}}
  \cup {[kind |-> "noResponse", status |-> 0, matchIds |-> <<>>]}

\* the error a failed request throws into the catch block
Thrown(response) ==
  CASE response.kind = "http" -> HttpFailure(response.status)
    [] response.kind = "noResponse" -> NoResponse
    [] OTHER -> TypeError

getPlayerById(playerId, response) ==
  IF response.kind \in {"ok", "noMatches"}
  THEN [isError |-> FALSE, error |-> NoError, id |-> playerId,
        matchIds |-> response.matchIds]
  ELSE [isError |-> TRUE, error |-> handleError(Thrown(response)), id |-> playerId,
        matchIds |-> <<>>]

getMatchDetails(matchId, response) ==
  IF response.kind = "ok"
  THEN [settled |-> TRUE, isError |-> FALSE, error |-> NoError, matchId |-> matchId,
        included |-> response.included]
  ELSE [settled |-> TRUE, isError |-> TRUE, error |-> handleError(Thrown(response)),
        matchId |-> matchId, included |-> <<>>]

\* faulty variant of the slice: the whole list
SliceAll(seq, limit) == seq

\* Array.prototype.slice(0, limit), limit >= 0
Slice(seq, limit) == SubSeq(seq, 1, IF limit < Len(seq) THEN limit ELSE Len(seq))

\* faulty variant of the join: the results in the order the fetches settled
PromiseAllByArrival(results, arrival) == [i \in 1..Len(arrival) |-> results[arrival[i]]]

\* Promise.all: the results by position of the promises
PromiseAll(results, arrival) == results

\* faulty variant of the participant search: the first participant of the match
findAnyParticipant(included, playerId) ==
  LET hits == {i \in 1..Len(included) : included[i].type = "participant"}
      first == IF hits = {} THEN 0 ELSE CHOOSE i \in hits : \A j \in hits : i <= j
  IN [threw |-> FALSE, found |-> first # 0, idx |-> first]

\* included.find(item => item.type === "participant" &&
\*                       item.attributes.stats.playerId === playerId):
\* the first entry on which the callback returns true or throws
findParticipant(included, playerId) ==
  LET hits == {i \in 1..Len(included) :
                 /\ included[i].type = "participant"
                 /\ (~included[i].hasStats \/ included[i].playerId = playerId)}
      first == IF hits = {} THEN 0 ELSE CHOOSE i \in hits : \A j \in hits : i <= j
  IN IF first = 0 THEN [threw |-> FALSE, found |-> FALSE, idx |-> 0]
     ELSE IF ~included[first].hasStats THEN [threw |-> TRUE, found |-> FALSE, idx |-> 0]
     ELSE [threw |-> FALSE, found |-> TRUE, idx |-> first]

\* faulty variant of the roster search: the first roster of the match
findAnyRoster(included, participantId) ==
  LET hits == {i \in 1..Len(included) : included[i].type = "roster"}
      first == IF hits = {} THEN 0 ELSE CHOOSE i \in hits : \A j \in hits : i <= j
  IN [threw |-> FALSE, found |-> first # 0, idx |-> first]

\* included.find(item => item.type === "roster" &&
\*     item.relationships.participants.data.some(p => p.id === participant.id))
findRoster(included, participantId) ==
  LET hits == {i \in 1..Len(included) :
                 /\ included[i].type = "roster"
                 /\ (~included[i].hasRefs \/ participantId \in included[i].refs)}
      first == IF hits = {} THEN 0 ELSE CHOOSE i \in hits : \A j \in hits : i <= j
  IN IF first = 0 THEN [threw |-> FALSE, found |-> FALSE, idx |-> 0]
     ELSE IF ~included[first].hasRefs THEN [threw |-> TRUE, found |-> FALSE, idx |-> 0]
     ELSE [threw |-> FALSE, found |-> TRUE, idx |-> first]

\* a rank is a number: undefined, null and 0 are falsy
FalsyRank(r) == r \in {Undefined, Null, "0"}

\* the callback of matches.map: a MatchStat, null, or a thrown TypeError
matchStat(match, playerId) ==
  IF match.isError THEN [threw |-> FALSE, isNull |-> TRUE]
  ELSE LET p == findParticipant(match.included, playerId) IN
       IF p.threw THEN [threw |-> TRUE, isNull |-> TRUE]
       ELSE IF ~p.found THEN [threw |-> FALSE, isNull |-> TRUE]
       ELSE LET participant == match.included[p.idx]
                r == findRoster(match.included, participant.id)
            IN IF r.threw THEN [threw |-> TRUE, isNull |-> TRUE]
               ELSE [threw |-> FALSE, isNull |-> FALSE, matchId |-> match.matchId,
                     kills |-> participant.kills,
                     teamRank |-> IF r.found /\ ~FalsyRank(match.included[r.idx].rank)
                                  THEN match.included[r.idx].rank ELSE Null,
                     teamWon |-> r.found /\ match.included[r.idx].won = "true"]

\* .filter(stat => stat !== null)
RECURSIVE FilterNotNull(_)
FilterNotNull(seq) ==
  IF seq = <<>> THEN <<>>
  ELSE IF Head(seq).isNull THEN FilterNotNull(Tail(seq))
  ELSE <<Head(seq)>> \o FilterNotNull(Tail(seq))

\* lines 211-267: the map, the filter and the catch around them
joinStats(matches, playerId) ==
  LET mapped == [i \in 1..Len(matches) |-> matchStat(matches[i], playerId)] IN
  IF \E i \in 1..Len(matches) : mapped[i].threw
  THEN [error |-> handleError(TypeError), stats |-> <<>>]
  ELSE [error |-> NoError, stats |-> FilterNotNull(mapped)]

\* got, gotStatus: history, the answer the profile request received
AggIdle ==
  [pc |-> "idle", limit |-> 0, profile |-> "none", all |-> <<>>, matchIds |-> <<>>,
   matches |-> <<>>,
   arrival |-> <<>>, error |-> NoError, stats |-> <<>>, got |-> "none",
   gotStatus |-> 0]

\* faulty variant: the failed profile reported as a new error of the call
afterProfileRewraps(a, playerData) ==
  IF playerData.isError
  THEN [a EXCEPT !.pc = "done", !.profile = "error", !.error = handleError(TypeError)]
  ELSE [a EXCEPT !.pc = "fetching", !.profile = "ok", !.all = playerData.matchIds,
                 !.matchIds = SubSeq(playerData.matchIds, 1,
                                     IF a.limit < Len(playerData.matchIds)
                                     THEN a.limit ELSE Len(playerData.matchIds)),
                 !.matches = [i \in 1..(IF a.limit < Len(playerData.matchIds)
                                        THEN a.limit ELSE Len(playerData.matchIds))
                                |-> Pending]]

\* lines 195-206: the profile's error is returned as it is, or the first
\* `limit` identifiers are taken and one getMatchDetails is issued for each
afterProfile(a, playerData) ==
  IF playerData.isError
  THEN [a EXCEPT !.pc = "done", !.profile = "error", !.error = playerData.error]
  ELSE LET matchIds == Slice(playerData.matchIds, a.limit) IN
       [a EXCEPT !.pc = "fetching", !.profile = "ok", !.all = playerData.matchIds,
                 !.matchIds = matchIds,
                 !.matches = [i \in 1..Len(matchIds) |-> Pending]]

----------------------------------------------------------------------------
(* models/pubg-api.js: the three remaining operations and the axios instance *)

\* what upstream can answer to the GETs of getPlayerSeasonStats, getSeasons and
\* getClanInfo: a body of the documented shape, a 2xx without one, an HTTP
\* failure, no answer
PlainResponses ==
  {[kind |-> k, status |-> 200] : k \in {"ok", "noBody"}}
  \cup {[kind |-> "http", status |-> st] : st \in HttpStatuses}
  \cup {[kind |-> "noResponse", status |-> 0]}

\* getPlayerSeasonStats returns response.data as it is, whatever it holds
getPlayerSeasonStats(playerId, response) ==
  IF response.kind \in {"ok", "noBody"}
  THEN [isError |-> FALSE, error |-> NoError]
  ELSE [isError |-> TRUE, error |-> handleError(Thrown(response))]

\* getSeasons maps response.data.data; getClanInfo reads response.data.data.attributes
getSeasons(shard, response) ==
  IF response.kind = "ok"
  THEN [isError |-> FALSE, error |-> NoError]
  ELSE [isError |-> TRUE, error |-> handleError(Thrown(response))]

getClanInfo(clanId, response) ==
  IF response.kind = "ok"
  THEN [isError |-> FALSE, error |-> NoError, id |-> clanId]
  ELSE [isError |-> TRUE, error |-> handleError(Thrown(response)), id |-> Null]

\* axios.create({ ..., timeout: 10000 }): milliseconds, on every request
timeout == 10000
\* the grain of the model's time and the reading at which it stops counting
Quantum == timeout \div 2
Horizon == timeout + Quantum

\* faulty variant: a client created without the timeout option
neverExpires(ms, elapsed) == FALSE

\* axios aborts a request left without an answer for its timeout (0: never)
expires(ms, elapsed) == ms > 0 /\ elapsed >= ms

\* the rejection of an aborted request: error.request is set, error.response is not
TimedOut == [kind |-> "noResponse", status |-> 0]

Ops ==
  {"searchPlayerByName", "getPlayerById", "getMatchDetails", "getPlayerSeasonStats",
   "getSeasons", "getClanInfo"}
ArgsOf(op) ==
  CASE op = "searchPlayerByName" -> Names
    [] op = "getPlayerById" -> {Target}
    [] op = "getMatchDetails" -> {"A"}
    [] op = "getPlayerSeasonStats" -> {Target}
    [] op = "getSeasons" -> {"steam"}
    [] OTHER -> {"c9"}
ResponsesOf(op, arg) ==
  CASE op = "searchPlayerByName" -> SearchResponses(arg)
    [] op = "getPlayerById" -> ProfileResponses
    [] op = "getMatchDetails" -> MatchResponses
    [] OTHER -> PlainResponses

\* what the operation returns to its caller once its request has ended: the
\* {error, statusCode} of its catch block, or NoError beside its value
returned(op, arg, response) ==
  CASE op = "searchPlayerByName" -> searchPlayerByName(arg, response).res
    [] op = "getPlayerById" -> getPlayerById(arg, response).error
    [] op = "getMatchDetails" -> getMatchDetails(arg, response).error
    [] op = "getPlayerSeasonStats" -> getPlayerSeasonStats(arg, response).error
    [] op = "getSeasons" -> getSeasons(arg, response).error
    [] OTHER -> getClanInfo(arg, response).error

NoRequest ==
  [pc |-> "idle", op |-> "none", arg |-> Null, elapsed |-> 0, kind |-> "none",
   status |-> 0, byTimer |-> FALSE, res |-> NoError]

----------------------------------------------------------------------------
(* The state machine of the store and the registration handler *)

NoCall ==
  [op |-> "none", via |-> "none", user |-> Null, playerId |-> Null,
   playerName |-> Null, clanId |-> Null, ret |-> FALSE, threw |-> FALSE,
   wfail |-> FALSE, wrote |-> FALSE, hadPrev |-> FALSE, prevSavedAt |-> NoTime,
   prevUpdatedAt |-> NoTime, present |-> FALSE, unparsable |-> FALSE,
   unchanged |-> TRUE, overlap |-> {}, read |-> "none", readThrew |-> FALSE]

\* data/users.json before its first write
NoFile == [exists |-> FALSE, parsable |-> TRUE, doc |-> EmptyDB]

NoInteraction ==
  [pc |-> "idle", type |-> "none", name |-> "none", user |-> Null,
   replied |-> FALSE, status |-> 0, body |-> "none", threw |-> FALSE,
   playerData |-> NoRec, got |-> "none", hits |-> 0, res |-> NoError,
   before |-> NoFile]

Init ==
  /\ file = NoFile
  /\ dataDir = FALSE
  /\ clock = 1
  /\ pending = [u \in Users |-> NoName]
  /\ seen = [u \in Users |-> {}]
  /\ saved = [u \in Users |-> NoRec]
  /\ last = NoCall
  /\ agg = AggIdle
  /\ call = NoRequest
  /\ ix = NoInteraction

\* time passes between two calls
Tick ==
  /\ clock < MaxClock
  /\ clock' = clock + 1
  /\ UNCHANGED <<file, dataDir, pending, seen, saved, last, agg, call, ix>>

\* one call of savePlayerData(u, data); the clock may advance between its two readings
SaveCall(u, data, via, env) ==
  \E t2 \in {clock, IF clock < MaxClock THEN clock + 1 ELSE clock} :
    LET s == savePlayerData(file, dataDir, u, data, clock, t2, env) IN
    /\ file' = s.file
    /\ dataDir' = s.dir
    /\ clock' = t2
    /\ saved' = IF s.threw \/ s.wfail THEN saved ELSE [saved EXCEPT ![u] = s.rec]
    /\ last' = [op |-> "save", via |-> via, user |-> u, playerId |-> data.playerId,
                playerName |-> data.playerName, clanId |-> data.clanId,
                ret |-> ~s.threw, threw |-> s.threw, wfail |-> s.wfail,
                wrote |-> ~s.threw, hadPrev |-> saved[u] # NoRec,
                prevSavedAt |-> IF saved[u] # NoRec THEN saved[u].savedAt ELSE NoTime,
                prevUpdatedAt |-> IF saved[u] # NoRec THEN saved[u].updatedAt ELSE NoTime,
                present |-> hasRegistered(file, u),
                unparsable |-> file.exists /\ ~file.parsable,
                unchanged |-> s.file = file,
                overlap |-> IF via = "register" THEN seen[u] ELSE {},
                read |-> "none", readThrew |-> FALSE]

\* handleRegisterModalSubmit up to its await of the search
RegisterSubmit(u, name) ==
  /\ pending[u] = NoName
  /\ pending' = [pending EXCEPT ![u] = name]
  /\ seen' = [seen EXCEPT ![u] = {}]
  /\ UNCHANGED <<file, dataDir, clock, saved, last, agg, call>>

\* faulty variant of the handler: playerData.error is not looked at
RegisterResumeSavesAnyway(u, response, env) ==
  /\ pending[u] # NoName
  /\ LET found == searchPlayerByName(pending[u], response) IN
     /\ SaveCall(u, [playerId |-> found.player.id, playerName |-> found.player.name,
                     clanId |-> JsOr(found.player.clanId, Null)], "register", env)
     /\ pending' = [pending EXCEPT ![u] = NoName]
     /\ seen' = seen
  /\ UNCHANGED <<agg, call>>

\* handleRegisterModalSubmit from the search's answer to the reply
RegisterResume(u, response, env) ==
  /\ pending[u] # NoName
  /\ LET found == searchPlayerByName(pending[u], response) IN
     IF found.res.isError
     THEN /\ last' = [NoCall EXCEPT !.op = "searchError", !.via = "register",
                                    !.user = u]
          /\ UNCHANGED <<file, dataDir, clock, saved, seen>>
          /\ pending' = [pending EXCEPT ![u] = NoName]
     ELSE /\ SaveCall(u, [playerId |-> found.player.id,
                          playerName |-> found.player.name,
                          clanId |-> JsOr(found.player.clanId, Null)],
                      "register", env)
          /\ pending' = [pending EXCEPT ![u] = NoName]
          /\ seen' = [v \in Users |->
                        IF v # u /\ pending[v] # NoName THEN seen[v] \cup {u}
                        ELSE seen[v]]
  /\ UNCHANGED <<agg, call>>

\* savePlayerId, the backward-compatibility shim
LegacyIds == {"p9"}
savePlayerId(u, pubgPlayerId, env) ==
  /\ SaveCall(u, [playerId |-> pubgPlayerId, playerName |-> Null, clanId |-> Null],
              "savePlayerId", env)
  /\ UNCHANGED <<pending, seen, agg, call, ix>>

DeleteCall(u, env) ==
  LET d == deletePlayerData(file, dataDir, u, env) IN
  /\ file' = d.file
  /\ dataDir' = d.dir
  /\ saved' = IF d.threw \/ d.wfail THEN saved ELSE [saved EXCEPT ![u] = NoRec]
  /\ last' = [NoCall EXCEPT !.op = "delete", !.via = "direct", !.user = u,
                            !.ret = d.ret, !.threw = d.threw, !.wfail = d.wfail,
                            !.wrote = d.wrote, !.hadPrev = saved[u] # NoRec,
                            !.present = hasRegistered(file, u),
                            !.unparsable = (file.exists /\ ~file.parsable),
                            !.unchanged = (d.file = file)]
  /\ UNCHANGED <<clock, pending, seen, agg, call, ix>>

\* the program with a storage that works
Register ==
  /\ \E u \in Users : \E name \in Names : RegisterSubmit(u, name)
  /\ UNCHANGED ix
Resume ==
  /\ \E u \in Users : \E response \in SearchResponses(pending[u]) :
       RegisterResume(u, response, HealthyEnv)
  /\ UNCHANGED ix
LegacySave == \E u \in Users : \E id \in LegacyIds : savePlayerId(u, id, HealthyEnv)
Delete == \E u \in Users : DeleteCall(u, HealthyEnv)

Next == Tick \/ Register \/ Resume \/ LegacySave \/ Delete

Spec == Init /\ [][Next]_vars

\* the store with a storage that can fail: mkdirSync or writeFileSync throws
LegacySaveIO ==
  \E u \in Users : \E id \in LegacyIds : \E env \in FaultyEnvs : savePlayerId(u, id, env)
DeleteIO == \E u \in Users : \E env \in FaultyEnvs : DeleteCall(u, env)

NextIO == Tick \/ LegacySaveIO \/ DeleteIO

SpecIO == Init /\ [][NextIO]_vars

\* the store with a document that something else can leave unparsable
Corrupt ==
  /\ file' = [exists |-> TRUE, parsable |-> FALSE, doc |-> EmptyDB]
  /\ dataDir' = TRUE
  /\ last' = [NoCall EXCEPT !.op = "corrupt"]
  /\ UNCHANGED <<clock, pending, seen, saved, agg, call, ix>>

NextCorrupt == Tick \/ LegacySave \/ Delete \/ Corrupt

SpecCorrupt == Init /\ [][NextCorrupt]_vars

\* the store called directly, reads included, with a storage that can fail and
\* a document that something else can leave unparsable
SaveInputs ==
  {[playerId |-> "p1", playerName |-> "Alice", clanId |-> "c1"],
   [playerId |-> "p2", playerName |-> "Bob", clanId |-> Undefined]}

\* a read of the store: readDB and nothing written; last keeps the latest
\* mutating call and notes the latest read after it
ReadCall(op, env) ==
  LET r == readDB(file, dataDir, env) IN
  /\ dataDir' = r.dir
  /\ last' = [last EXCEPT !.read = op, !.readThrew = r.threw]
  /\ UNCHANGED <<file, clock, pending, seen, saved, agg, call, ix>>

\* a read writes nothing: of the storage faults only that of mkdirSync reaches it
ReadEnvs == {env \in FaultyEnvs : env.writeOk}

SavePlayerDataCall ==
  /\ \E u \in Users : \E data \in SaveInputs : \E env \in FaultyEnvs :
       SaveCall(u, data, "direct", env)
  /\ UNCHANGED <<pending, seen, agg, call, ix>>
GetPlayerDataCall == \E u \in Users : \E env \in ReadEnvs : ReadCall("get", env)
GetAllPlayerDataCall == \E env \in ReadEnvs : ReadCall("getAll", env)
GetStatsCall == \E env \in ReadEnvs : ReadCall("stats", env)
HasRegisteredCall ==
  \E u \in Users : \E env \in ReadEnvs : ReadCall("hasRegistered", env)

NextStore ==
  \/ Tick \/ SavePlayerDataCall \/ DeleteIO \/ Corrupt
  \/ GetPlayerDataCall \/ GetAllPlayerDataCall \/ GetStatsCall \/ HasRegisteredCall

SpecStore == Init /\ [][NextStore]_vars

----------------------------------------------------------------------------
(* Properties of the record store, checked under Spec *)

LastRecord == getPlayerData(file, last.user)
LastSaved == last.op = "save" /\ ~last.threw

\* C1: the second of two successive saves of one userId (calls on other keys in
\* between) keeps the savedAt the first wrote, has an updatedAt not smaller than
\* the first's, and holds exactly the second call's playerId, playerName, clanId.
C1_SecondSaveKeepsSavedAt ==
  (LastSaved /\ last.hadPrev) =>
    /\ LastRecord # NoRec
    /\ LastRecord.savedAt = last.prevSavedAt
    /\ LastRecord.updatedAt >= last.prevUpdatedAt
    /\ LastRecord.playerId = last.playerId
    /\ LastRecord.playerName = last.playerName
    /\ LastRecord.clanId = last.clanId

\* a re-registration with new content, later than the first, another user's
\* record being in the store
C1_Witness ==
  /\ LastSaved /\ last.hadPrev
  /\ LastRecord.updatedAt > last.prevUpdatedAt
  /\ LastRecord.savedAt < LastRecord.updatedAt
  /\ last.playerName = "Bob"
  /\ \E v \in Users \ {last.user} : hasRegistered(file, v)

\* C2: get(userId) right after save(userId, data) returns a record with the
\* playerId, playerName and clanId passed to save, whatever the store held.
C2_GetAfterSave ==
  LastSaved =>
    /\ LastRecord # NoRec
    /\ LastRecord.playerId = last.playerId
    /\ LastRecord.playerName = last.playerName
    /\ LastRecord.clanId = last.clanId

\* a save over an existing record of another content
C2_Witness ==
  /\ LastSaved /\ last.present
  /\ last.via = "register" /\ last.clanId = "c9"
  /\ LastRecord.savedAt < LastRecord.updatedAt

\* C3: delete of a present key returns true and get then returns not-found;
\* delete of an absent key returns false, writes nothing and leaves the document.
C3_Delete ==
  (last.op = "delete" /\ ~last.threw) =>
    /\ last.present => (last.ret /\ LastRecord = NoRec)
    /\ ~last.present => (~last.ret /\ ~last.wrote /\ last.unchanged)

\* a present key was deleted beside another user's record
C3_Witness ==
  /\ last.op = "delete" /\ last.present /\ last.ret
  /\ \E v \in Users \ {last.user} : hasRegistered(file, v)

\* C4: in every state, totalUsers = usersWithClans + usersWithoutClans,
\* totalUsers is the number of entries of getAll(), and usersWithClans is the
\* number of records whose clanId is not null.
C4_StatsConsistent ==
  LET st == getStats(file)
      all == getAllPlayerData(file)
  IN /\ st.totalUsers = st.usersWithClans + st.usersWithoutClans
     /\ st.totalUsers = Cardinality(DOMAIN all)
     /\ st.usersWithClans = Cardinality({u \in DOMAIN all : all[u].clanId # Null})

\* one record with a clan and one without
C4_Witness ==
  /\ getStats(file).totalUsers = 2
  /\ getStats(file).usersWithClans = 1
  /\ getStats(file).usersWithoutClans = 1

----------------------------------------------------------------------------
(* Properties of the store under storage faults *)

\* C6: a failing write of the document during save or delete is propagated to
\* the caller: the call does not report success with the change missing.
C6_WriteFailurePropagates ==
  (last.op \in {"save", "delete"} /\ last.wfail) => (last.threw /\ ~last.ret)

Unparsable(f) == f.exists /\ ~f.parsable

\* C7: on an unparsable document get, getAll, stats and hasRegistered answer as
\* on an empty store and raise nothing, and the next save leaves a well-formed
\* mapping that holds exactly the saved record.
C7_UnparsableReadsEmpty ==
  /\ Unparsable(file) =>
       /\ \A env \in FaultyEnvs : ~readDB(file, dataDir, env).threw
       /\ getAllPlayerData(file) = EmptyDB
       /\ getStats(file) = [totalUsers |-> 0, usersWithClans |-> 0,
                            usersWithoutClans |-> 0]
       /\ \A u \in Users : getPlayerData(file, u) = NoRec /\ ~hasRegistered(file, u)
  /\ (last.op = "save" /\ last.unparsable) =>
       /\ ~last.threw
       /\ file.exists /\ file.parsable
       /\ DOMAIN getAllPlayerData(file) = {last.user}
       /\ LastRecord.playerId = last.playerId
       /\ LastRecord.playerName = last.playerName
       /\ LastRecord.clanId = last.clanId

\* a save over an unparsable document that had held another user's record
C7_Witness ==
  /\ last.op = "save" /\ last.unparsable
  /\ \E v \in Users \ {last.user} : saved[v] # NoRec
  /\ DOMAIN getAllPlayerData(file) = {last.user}

\* C15: a save for a userId absent from the store creates a record whose savedAt
\* equals its updatedAt and whose playerId, playerName, clanId are the given ones.
C15_FreshSaveStampsEqual ==
  (LastSaved /\ ~last.present) =>
    /\ LastRecord # NoRec
    /\ LastRecord.savedAt = LastRecord.updatedAt
    /\ LastRecord.playerId = last.playerId
    /\ LastRecord.playerName = last.playerName
    /\ LastRecord.clanId = last.clanId

\* C16: every record of the store has savedAt <= updatedAt, whatever sequence of
\* savePlayerData, savePlayerId and deletePlayerData calls led to it, the clock
\* never going back.
C16_SavedAtNotAfterUpdatedAt ==
  \A u \in Users :
    hasRegistered(file, u) =>
      getPlayerData(file, u).savedAt <= getPlayerData(file, u).updatedAt

\* a record written again by savePlayerId later than its creation, beside a
\* record of another user created after the clock had advanced
C16_Witness ==
  /\ LastSaved /\ last.via = "savePlayerId" /\ last.hadPrev
  /\ LastRecord.savedAt < LastRecord.updatedAt
  /\ \E v \in Users \ {last.user} :
       /\ hasRegistered(file, v)
       /\ getPlayerData(file, v).savedAt > LastRecord.savedAt

\* the steps of savePlayerData and deletePlayerData for one user, and the steps
\* of the four reads
Mutated == last'.op \in {"save", "delete"} /\ last'.read = "none"
ReadOps == {"get", "getAll", "stats", "hasRegistered"}
WasRead == last'.read \in ReadOps

\* C21: a savePlayerData or deletePlayerData call for one user leaves the record
\* of every other user as it was, in every field and in its presence, and
\* getPlayerData, getAllPlayerData, getStats and hasRegistered leave
\* data/users.json as it was, whatever the store held before the call and
\* whether or not the storage fails.
C21_OtherRecordsAndReadsFrame ==
  [][/\ Mutated => \A v \in Users \ {last'.user} :
                     getPlayerData(file', v) = getPlayerData(file, v)
     /\ WasRead => file' = file]_vars

\* a delete that removed one user's record beside the record of another user
\* that had been saved twice, followed by a getStats call
C21_Witness ==
  /\ last.op = "delete" /\ last.ret /\ ~last.wfail
  /\ last.read = "stats" /\ ~last.readThrew
  /\ ~hasRegistered(file, last.user)
  /\ \E v \in Users \ {last.user} :
       /\ hasRegistered(file, v)
       /\ getPlayerData(file, v).savedAt < getPlayerData(file, v).updatedAt
       /\ getPlayerData(file, v).clanId = "c1"

----------------------------------------------------------------------------
(* The state machine of getRecentMatchesStats(Target, "steam", limit) *)

StoreVars == <<file, dataDir, clock, pending, seen, saved, last>>

\* the call, up to its await of getPlayerById
AggCall ==
  /\ agg.pc = "idle"
  /\ \E limit \in 0..MaxLimit : agg' = [AggIdle EXCEPT !.pc = "profile", !.limit = limit]
  /\ UNCHANGED <<StoreVars, call, ix>>

\* the profile answers: its error is returned, or every match fetch is issued
ProfileReturns ==
  /\ agg.pc = "profile"
  /\ \E response \in ProfileResponses :
       agg' = afterProfile([agg EXCEPT !.got = response.kind,
                                       !.gotStatus = response.status],
                           getPlayerById(Target, response))
  /\ UNCHANGED <<StoreVars, call, ix>>

\* one getMatchDetails settles, in any order
MatchSettles(i, response) ==
  /\ agg.pc = "fetching"
  /\ i \in 1..Len(agg.matches)
  /\ ~agg.matches[i].settled
  /\ agg' = [agg EXCEPT !.matches[i] = getMatchDetails(agg.matchIds[i], response),
                        !.arrival = Append(agg.arrival, i)]
  /\ UNCHANGED <<StoreVars, call, ix>>

\* Promise.all resolves once every fetch has settled; the join runs to the return
Join ==
  /\ agg.pc = "fetching"
  /\ \A i \in 1..Len(agg.matches) : agg.matches[i].settled
  /\ LET j == joinStats(PromiseAll(agg.matches, agg.arrival), Target) IN
     agg' = [agg EXCEPT !.pc = "done", !.error = j.error, !.stats = j.stats]
  /\ UNCHANGED <<StoreVars, call, ix>>

\* upstream answers in the documented shape, or not at all
MatchReturns ==
  \E i \in 1..Len(agg.matches) : \E response \in MatchResponses : MatchSettles(i, response)

NextAgg == AggCall \/ ProfileReturns \/ MatchReturns \/ Join

SpecAgg == Init /\ [][NextAgg]_vars

\* upstream may also answer with entries that lack the documented shape
MatchReturnsAny ==
  \E i \in 1..Len(agg.matches) : \E response \in MatchResponses \cup MalformedResponses :
    MatchSettles(i, response)

NextAggAny == AggCall \/ ProfileReturns \/ MatchReturnsAny \/ Join

SpecAggAny == Init /\ [][NextAggAny]_vars

----------------------------------------------------------------------------
(* Properties of the aggregator *)

Returned == agg.pc = "done" /\ agg.profile = "ok"
Fetched == 1..Len(agg.matches)
StatIds == {agg.stats[k].matchId : k \in 1..Len(agg.stats)}

\* the match holds a participant whose stat block names the target player
HasTarget(m) ==
  /\ ~m.isError
  /\ \E k \in 1..Len(m.included) :
       /\ m.included[k].type = "participant"
       /\ m.included[k].hasStats
       /\ m.included[k].playerId = Target

\* an entry of the match lacks the documented shape
Misshapen(m) ==
  /\ ~m.isError
  /\ \E k \in 1..Len(m.included) :
       \/ m.included[k].type = "participant" /\ ~m.included[k].hasStats
       \/ m.included[k].type = "roster" /\ ~m.included[k].hasRefs

\* C8: the MatchStats come in the order of the profile's match identifiers for
\* every completion order of the fetches: all resolvable identifiers give one
\* stat each in that order, and an omitted match does not reorder the others.
C8_OrderPreserved ==
  Returned =>
    /\ ~agg.error.isError
    /\ \A a, b \in 1..Len(agg.stats) :
         a < b => \E i, j \in Fetched :
                    /\ i < j
                    /\ agg.matchIds[i] = agg.stats[a].matchId
                    /\ agg.matchIds[j] = agg.stats[b].matchId
    /\ (\A i \in Fetched : HasTarget(agg.matches[i])) =>
         /\ Len(agg.stats) = Len(agg.matchIds)
         /\ \A i \in Fetched : agg.stats[i].matchId = agg.matchIds[i]

\* three resolvable matches whose fetches settled last-first
C8_Witness ==
  /\ Returned
  /\ Len(agg.matchIds) = 3
  /\ agg.arrival = <<3, 2, 1>>
  /\ \A i \in Fetched : HasTarget(agg.matches[i])
  /\ Len(agg.stats) = 3

\* C9: a fetched match without a participant of the target player is dropped,
\* the call returns no error, and every other joined match gives one MatchStat.
C9_AbsentPlayerDropped ==
  Returned =>
    /\ ~agg.error.isError
    /\ \A i \in Fetched :
         (~agg.matches[i].isError /\ ~HasTarget(agg.matches[i]))
           => agg.matchIds[i] \notin StatIds
    /\ \A j \in Fetched :
         HasTarget(agg.matches[j])
           => Cardinality({k \in 1..Len(agg.stats) :
                             agg.stats[k].matchId = agg.matchIds[j]}) = 1

\* three matches, the second holds only another player's participant: two stats
C9_Witness ==
  /\ Returned
  /\ Len(agg.matchIds) = 3
  /\ HasTarget(agg.matches[1]) /\ HasTarget(agg.matches[3])
  /\ ~agg.matches[2].isError /\ ~HasTarget(agg.matches[2])
  /\ Len(agg.matches[2].included) > 0
  /\ Len(agg.stats) = 2
  /\ ~agg.error.isError

\* C10: a failed match fetch (HTTP error, timeout, an answer lacking the expected
\* shape) never aborts the batch: the call returns no error and holds the
\* MatchStat of every other match.
C10_FailedFetchNeverAborts ==
  Returned =>
    /\ ~agg.error.isError
    /\ \A j \in Fetched :
         (HasTarget(agg.matches[j]) /\ ~Misshapen(agg.matches[j]))
           => agg.matchIds[j] \in StatIds

ProfileFailed == agg.pc = "done" /\ agg.got \notin {"none", "ok", "noMatches"}

\* C17: when the profile request fails, the call returns the error getPlayerById
\* made of that failure, unchanged, and no getMatchDetails is issued.
C17_ProfileErrorReturned ==
  ProfileFailed =>
    /\ agg.error.isError
    /\ agg.error = handleError(Thrown([kind |-> agg.got, status |-> agg.gotStatus]))
    /\ agg.matchIds = <<>> /\ agg.matches = <<>> /\ agg.arrival = <<>>
    /\ agg.stats = <<>>

\* a rate-limited profile request of a call that asked for three matches
C17_Witness ==
  /\ ProfileFailed /\ agg.limit = 3
  /\ agg.got = "http" /\ agg.gotStatus = 429
  /\ agg.error = ApiError("Rate limit exceeded", 429)

Min(a, b) == IF a < b THEN a ELSE b
Prefix == {agg.all[i] : i \in 1..Min(agg.limit, Len(agg.all))}

\* C18: the fetches are those of the first min(limit, n) identifiers of the
\* profile, in the profile's order, one fetch per identifier that settles once;
\* the result has at most limit entries, all of matches of that prefix.
C18_FetchesPrefixOnce ==
  agg.profile = "ok" =>
    /\ Len(agg.matchIds) = Min(agg.limit, Len(agg.all))
    /\ \A i \in 1..Len(agg.matchIds) : agg.matchIds[i] = agg.all[i]
    /\ Len(agg.matches) = Len(agg.matchIds)
    /\ \A i \in 1..Len(agg.arrival) : agg.arrival[i] \in 1..Len(agg.matchIds)
    /\ \A i, j \in 1..Len(agg.arrival) : i # j => agg.arrival[i] # agg.arrival[j]
    /\ Len(agg.stats) <= agg.limit
    /\ StatIds \subseteq Prefix

\* two of three known matches asked for and both joined
C18_Witness ==
  /\ Returned
  /\ agg.limit = 2 /\ Len(agg.all) = 3
  /\ Len(agg.arrival) = 2
  /\ Len(agg.stats) = 2

\* the target's participant entry of a match, and the rosters that refer to it
Me(m) ==
  CHOOSE k \in 1..Len(m.included) :
    /\ m.included[k].type = "participant" /\ m.included[k].playerId = Target
    /\ \A j \in 1..(k - 1) :
         ~(m.included[j].type = "participant" /\ m.included[j].playerId = Target)
Teams(m) ==
  {k \in 1..Len(m.included) :
     m.included[k].type = "roster" /\ m.included[Me(m)].id \in m.included[k].refs}
Team(m) == m.included[CHOOSE k \in Teams(m) : \A j \in Teams(m) : k <= j]
\* the fetched match a MatchStat was made of
MatchOf(stat) ==
  agg.matches[CHOOSE i \in Fetched : agg.matchIds[i] = stat.matchId]

\* C19 as stated: teamRank is the rank of the roster that refers to the target's
\* participant and is null exactly when that roster or its rank is absent;
\* teamWon is true exactly when that roster's won marker is "true".
C19_RankNullOnlyWhenAbsent ==
  Returned =>
    \A k \in 1..Len(agg.stats) :
      LET m == MatchOf(agg.stats[k]) IN
      /\ (agg.stats[k].teamRank = Null)
           <=> (Teams(m) = {} \/ Team(m).rank \in {Undefined, Null})
      /\ agg.stats[k].teamRank # Null => agg.stats[k].teamRank = Team(m).rank
      /\ agg.stats[k].teamWon <=> (Teams(m) # {} /\ Team(m).won = "true")

\* C19, amended: teamRank is that roster's rank when the rank is a number other
\* than 0, and null when the roster is absent or its rank is absent or 0;
\* teamWon is true exactly when that roster's won marker is "true".
C19_TeamRankAndWon ==
  Returned =>
    \A k \in 1..Len(agg.stats) :
      LET m == MatchOf(agg.stats[k]) IN
      /\ agg.stats[k].teamRank =
           IF Teams(m) = {} \/ Team(m).rank \in {Undefined, Null, "0"}
           THEN Null ELSE Team(m).rank
      /\ agg.stats[k].teamWon <=> (Teams(m) # {} /\ Team(m).won = "true")

\* three joined matches: the first roster of one is another team's and the
\* target's has rank 0, one has a roster with rank 1 that won, one has no
\* roster of the target
C19_Witness ==
  /\ Returned /\ Len(agg.stats) = 3
  /\ Cardinality(Teams(MatchOf(agg.stats[1]))) = 1
  /\ MatchOf(agg.stats[1]).included[1].type = "roster"
  /\ Team(MatchOf(agg.stats[1])).rank = "0" /\ agg.stats[1].teamRank = Null
  /\ agg.stats[2].teamRank = "1" /\ agg.stats[2].teamWon
  /\ Teams(MatchOf(agg.stats[3])) = {} /\ ~agg.stats[3].teamWon

----------------------------------------------------------------------------
(* The state machine of one request of the client *)

Others == <<file, dataDir, clock, pending, seen, saved, last, agg, ix>>

\* an operation is called: this.client.get sends the request and arms the timer
Request(op, arg) ==
  /\ call.pc # "pending"
  /\ call' = [NoRequest EXCEPT !.pc = "pending", !.op = op, !.arg = arg]
  /\ UNCHANGED Others

\* time passes while the request is out
Elapse ==
  /\ call.pc = "pending"
  /\ ~expires(timeout, call.elapsed)
  /\ call.elapsed < Horizon
  /\ call' = [call EXCEPT !.elapsed = @ + Quantum]
  /\ UNCHANGED Others

\* the request ends with an answer or a network failure; the operation returns
UpstreamAnswers(response) ==
  /\ call.pc = "pending"
  /\ call' = [call EXCEPT !.pc = "returned", !.kind = response.kind,
                          !.status = response.status,
                          !.res = returned(call.op, call.arg, response)]
  /\ UNCHANGED Others

\* the timer of the request fires: axios rejects, the operation's catch returns
TimerFires ==
  /\ call.pc = "pending"
  /\ expires(timeout, call.elapsed)
  /\ call' = [call EXCEPT !.pc = "returned", !.kind = TimedOut.kind,
                          !.status = TimedOut.status, !.byTimer = TRUE,
                          !.res = returned(call.op, call.arg, TimedOut)]
  /\ UNCHANGED Others

Requests == \E op \in Ops : \E arg \in ArgsOf(op) : Request(op, arg)
Answers == \E response \in ResponsesOf(call.op, call.arg) : UpstreamAnswers(response)

NextClient == Requests \/ Elapse \/ Answers \/ TimerFires

SpecClient == Init /\ [][NextClient]_vars

\* Node's event loop runs a due timer, and time does not stop; upstream owes nothing
SpecClientLive == SpecClient /\ WF_vars(Elapse) /\ WF_vars(TimerFires)

----------------------------------------------------------------------------
(* Properties of the client *)

\* C12: every operation of the client ends by returning a success value or an
\* {error, statusCode} value: an upstream 404 gives "Player not found"/404, a 401
\* "Invalid API key"/401, a 429 "Rate limit exceeded"/429, and a request without
\* response "No response from server"/503; a success comes only from an answer.
C12_TypedResults ==
  call.pc = "returned" =>
    /\ call.res.isError => (call.res.error # "" /\ call.res.statusCode \in 400..599)
    /\ ~call.res.isError => (call.res = NoError /\ call.status = 200)
    /\ (call.kind = "http" /\ call.status = 404)
         => call.res = ApiError("Player not found", 404)
    /\ (call.kind = "http" /\ call.status = 401)
         => call.res = ApiError("Invalid API key", 401)
    /\ (call.kind = "http" /\ call.status = 429)
         => call.res = ApiError("Rate limit exceeded", 429)
    /\ call.kind = "http" => call.res.statusCode = call.status
    /\ call.kind = "noResponse" => call.res = ApiError("No response from server", 503)

\* getClanInfo answered with a 429
C12_Witness ==
  /\ call.pc = "returned" /\ call.op = "getClanInfo"
  /\ call.kind = "http" /\ call.status = 429
  /\ call.res.statusCode = 429

\* C14: a request never stays out longer than the timeout, a request that got no
\* answer returns "No response from server"/503, and every call returns.
C14_CallsComplete ==
  /\ [](call.pc = "pending" => call.elapsed <= timeout)
  /\ [](call.byTimer => /\ call.pc = "returned"
                        /\ call.elapsed = timeout
                        /\ call.res = ApiError("No response from server", 503))
  /\ (call.pc = "pending") ~> (call.pc = "returned")

\* a search that upstream never answered, returned when its timer fired
C14_Witness ==
  /\ call.pc = "returned" /\ call.byTimer
  /\ call.op = "searchPlayerByName"
  /\ call.elapsed = timeout
  /\ call.res.statusCode = 503

----------------------------------------------------------------------------
(* app.js and the handlers: one interaction, from the POST to its reply *)

\* InteractionType of discord-interactions; the commands commands.js installs
\* and the custom_id of the one modal, beside a name the mappings do not hold
InteractionTypes == {"PING", "APPLICATION_COMMAND", "MESSAGE_COMPONENT", "MODAL_SUBMIT"}
CommandNames == {"register", "info", "test"}
CustomIds == {"pubg_register_modal", "other_modal"}

\* config/command_mapping.js, the mapping that handlers/index.js can serve
COMMAND_HANDLERS(name) ==
  CASE name = "register" -> "handleRegisterCommand"
    [] name = "info" -> "handleInfoCommand"
    [] OTHER -> Undefined
MODAL_HANDLERS(customId) ==
  IF customId = "pubg_register_modal" THEN "handleRegisterModalSubmit" ELSE Undefined

\* res.send / res.status(code).json: the reply is written, the handler returns
Reply(i, status, body) ==
  [i EXCEPT !.pc = "ended", !.replied = TRUE, !.status = status, !.body = body]

\* The promise of the async route function rejects. app.js wraps the handler in
\* no try/catch and installs no error middleware, so what follows is the
\* framework's: Express 4 ignores the promise and nothing is written to res,
\* Express 5 hands the rejection to its default error handler, which answers 500.
ExpressMajors == {4, 5}
Rejects(i, major) ==
  IF major >= 5
  THEN [Reply(i, 500, "Internal Server Error") EXCEPT !.threw = TRUE]
  ELSE [i EXCEPT !.pc = "ended", !.threw = TRUE]

\* the title of the registration's error reply
errorMessage(statusCode) ==
  CASE statusCode = 404 -> "Player not found!"
    [] statusCode = 401 -> "API Configuration Error"
    [] statusCode = 429 -> "Too Many Requests"
    [] OTHER -> "Failed to find PUBG player."

Arrived(type, name, u) ==
  [NoInteraction EXCEPT !.type = type, !.name = name, !.user = u, !.before = file]
Free == ix.pc \in {"idle", "ended"}

\* type PING
Ping(u) ==
  /\ Free
  /\ ix' = Reply(Arrived("PING", "none", u), 200, "PONG")
  /\ UNCHANGED <<file, dataDir, clock, pending, seen, saved, last, agg, call>>

\* type APPLICATION_COMMAND: the handler of the mapping runs up to its reply or
\* its first await. handleRegisterCommand replies the modal; handleInfoCommand
\* reads the store (getPlayerData: readDB, then db[userId] || null).
Command(name, u, env) ==
  /\ Free
  /\ LET i == Arrived("APPLICATION_COMMAND", name, u)
         r == readDB(file, dataDir, env)
         playerData == IF u \in DOMAIN r.db THEN r.db[u] ELSE NoRec
     IN IF COMMAND_HANDLERS(name) = "handleRegisterCommand"
        THEN ix' = Reply(i, 200, "MODAL") /\ UNCHANGED dataDir
        ELSE IF COMMAND_HANDLERS(name) = "handleInfoCommand"
        THEN /\ dataDir' = r.dir
             /\ \E major \in ExpressMajors :
                  ix' = IF r.threw THEN Rejects(i, major)
                        ELSE IF playerData = NoRec THEN Reply(i, 200, "Not registered")
                        ELSE [i EXCEPT !.pc = "awaitPlayer", !.playerData = playerData]
        ELSE ix' = Reply(i, 400, "unknown command") /\ UNCHANGED dataDir
  /\ UNCHANGED <<file, clock, pending, seen, saved, last, agg, call>>

\* type MODAL_SUBMIT: handleRegisterModalSubmit up to its await of the search; a
\* custom_id without handler falls through to the last reply of the route
ModalSubmit(customId, u, value) ==
  /\ Free
  /\ LET i == Arrived("MODAL_SUBMIT", customId, u) IN
     IF MODAL_HANDLERS(customId) # Undefined
     THEN /\ RegisterSubmit(u, value)
          /\ ix' = [i EXCEPT !.pc = "awaitSearch"]
     ELSE /\ ix' = Reply(i, 400, "unknown interaction type")
          /\ UNCHANGED <<file, dataDir, clock, pending, seen, saved, last, agg, call>>

\* any other type
UnknownType(u) ==
  /\ Free
  /\ ix' = Reply(Arrived("MESSAGE_COMPONENT", "none", u), 400, "unknown interaction type")
  /\ UNCHANGED <<file, dataDir, clock, pending, seen, saved, last, agg, call>>

\* handleRegisterModalSubmit from the search's answer on: the error reply, or
\* the save and the success reply
SearchReturns(response, env) ==
  /\ ix.pc = "awaitSearch"
  /\ RegisterResume(ix.user, response, env)
  /\ LET found == searchPlayerByName(pending[ix.user], response)
         i == [ix EXCEPT !.got = response.kind, !.hits = Len(response.data),
                         !.res = found.res]
     IN \E major \in ExpressMajors :
          ix' = IF found.res.isError
                THEN Reply(i, 200, errorMessage(found.res.statusCode))
                ELSE IF last'.threw THEN Rejects(i, major)
                ELSE Reply(i, 200, "Registration Successful!")

\* handleInfoCommand from the profile's answer on
PlayerReturns(response) ==
  /\ ix.pc = "awaitPlayer"
  /\ LET player == getPlayerById(ix.playerData.playerId, response)
         i == [ix EXCEPT !.got = response.kind, !.res = player.error]
     IN ix' = IF player.isError THEN Reply(i, 200, "Profile")
              ELSE IF ~Falsy(ix.playerData.clanId) THEN [i EXCEPT !.pc = "awaitClan"]
              ELSE Reply(i, 200, "Profile, No clan")
  /\ UNCHANGED <<file, dataDir, clock, pending, seen, saved, last, agg, call>>

\* handleInfoCommand from the clan's answer on
ClanReturns(response) ==
  /\ ix.pc = "awaitClan"
  /\ LET clanInfo == getClanInfo(ix.playerData.clanId, response)
         i == [ix EXCEPT !.got = response.kind, !.res = clanInfo.error]
     IN ix' = Reply(i, 200, IF clanInfo.isError THEN "Profile" ELSE "Profile, Clan")
  /\ UNCHANGED <<file, dataDir, clock, pending, seen, saved, last, agg, call>>

\* the storage of the interactions: writes succeed, creating ./data can fail
BotEnvs == {env \in FaultyEnvs : env.writeOk}

Pings == \E u \in Users : Ping(u)
Commands ==
  \E name \in CommandNames : \E u \in Users : \E env \in BotEnvs :
    Command(name, u, env)
Modals ==
  \E id \in CustomIds : \E u \in Users : \E value \in Names :
    ModalSubmit(id, u, value)
Unknowns == \E u \in Users : UnknownType(u)
SearchAnswers ==
  /\ ix.pc = "awaitSearch"
  /\ \E response \in SearchResponses(pending[ix.user]) : \E env \in BotEnvs :
       SearchReturns(response, env)
PlayerAnswers == \E response \in ProfileResponses : PlayerReturns(response)
ClanAnswers == \E response \in PlainResponses : ClanReturns(response)

NextBot ==
  Pings \/ Commands \/ Modals \/ Unknowns \/ SearchAnswers \/ PlayerAnswers \/ ClanAnswers

SpecBot == Init /\ [][NextBot]_vars

----------------------------------------------------------------------------
(* Properties of the interactions *)

Ended == ix.pc = "ended"
Registration == ix.type = "MODAL_SUBMIT" /\ ix.name = "pubg_register_modal"

\* C11: every interaction (ping, command, modal submission, unknown kind) gets a
\* reply, whatever its handler does: an interaction whose handling has ended,
\* by a return or by an error, has been answered.
C11_EveryInteractionReplied == Ended => ix.replied

\* the search was answered, with no player in the answer
ZeroResults == Registration /\ Ended /\ ix.got \in {"ok", "noData"} /\ ix.hits = 0

\* C13: a search that upstream answers with zero results returns the error
\* "Player not found" with statusCode 404, which is not the error of a request
\* without response, and the registration writes nothing to the store.
C13_ZeroResultsNotFound ==
  ZeroResults =>
    /\ ix.res = ApiError("Player not found", 404)
    /\ ix.res # handleError(NoResponse)
    /\ ix.replied /\ ix.body = "Player not found!"
    /\ file = ix.before

\* an empty list answered to a user without record, beside another user's record
C13_Witness ==
  /\ ZeroResults /\ ix.got = "ok"
  /\ ~hasRegistered(file, ix.user)
  /\ \E v \in Users \ {ix.user} : hasRegistered(file, v)

\* C20: a registration whose search returned an error leaves the store as it
\* was: no record is created, and a record of the user keeps every field.
C20_SearchErrorLeavesStore ==
  (Registration /\ Ended /\ ix.res.isError) =>
    /\ file = ix.before
    /\ hasRegistered(file, ix.user) = hasRegistered(ix.before, ix.user)
    /\ getPlayerData(file, ix.user) = getPlayerData(ix.before, ix.user)

\* a rate-limited search of a registered user, whose record is older than the
\* clock's reading and still as it was saved
C20_Witness ==
  /\ Registration /\ Ended /\ ix.res.statusCode = 429
  /\ hasRegistered(file, ix.user)
  /\ getPlayerData(file, ix.user) = saved[ix.user]
  /\ getPlayerData(file, ix.user).updatedAt < clock

====
